---- MODULE Spec2Model ----
(***************************************************************************)
(* A model of fan2fanBot (src/main.py): the poll -> parse -> filter ->     *)
(* dedupe -> enrich -> dispatch pipeline of check_api_for_event, the       *)
(* seen-offer store (load_seen_offers / save_seen_offers), the startup     *)
(* checks and the poll loop of main.                                       *)
(*                                                                         *)
(* JSON values are modelled by records that keep what the code looks at:   *)
(* the kind of a value (absent, number, text, object, list) and, where the *)
(* code reads it, its content.  Prices are kept in cents, as on the wire.  *)
(***************************************************************************)
EXTENDS Integers, Sequences, FiniteSets, TLC

(***************************************************************************)
(* Bounds of the model: the number of resources in EVENT_IDS, of recipients *)
(* in telegram_chat_ids_list, and of offers in a response.                 *)
(***************************************************************************)
NumEvents == 2
NumChats == 2
MaxOffers == 2

(***************************************************************************)
(* Program constants.                                                      *)
(***************************************************************************)
MAX_PRICE_THRESHOLD == 250

(***************************************************************************)
(* JSON values of a response.                                              *)
(***************************************************************************)
\* offer.get('id') is only tested for truth, looked up in the set and added
\* to it: an absent, null or empty id is the falsy id.
NoId == ""
OfferIds == {"o1", "o2"}

NoTotal == [kind |-> "absent", val |-> 0]
IntTotal(n) == [kind |-> "int", val |-> n]
\* JSON true: Python's bool, worth 1 in arithmetic
BoolTotal == [kind |-> "bool", val |-> 1]
\* a JSON string (or null, list, object) under 'total'
StrTotal == [kind |-> "str", val |-> 0]

\* offer.get('price'): no price object (the key absent, null, an empty value,
\* or a text or list, which hold no 'total' the code can read), a number, or
\* a non-empty object, with what the object holds under 'total'.
NoPrice == [kind |-> "absent", total |-> NoTotal]
NumberPrice == [kind |-> "number", total |-> NoTotal]
ObjectPrice(t) == [kind |-> "object", total |-> t]

\* offer.get('offerTypeDescription', 'N/A'): a text, or a value that is present
\* and is not a text (null, a number)
Text(t) == [kind |-> "text", text |-> t]
TextDesc == [kind |-> "text", text |-> "General"]
NonTextDesc == [kind |-> "other", text |-> ""]

Offer(id, price, desc) == [id |-> id, price |-> price, desc |-> desc]

Offers ==
    {Offer("o1", ObjectPrice(IntTotal(15000)), TextDesc),
     Offer("o2", ObjectPrice(IntTotal(24999)), TextDesc),
     Offer("o1", ObjectPrice(IntTotal(25000)), TextDesc),
     Offer("o2", ObjectPrice(IntTotal(40000)), TextDesc),
     Offer("o1", NoPrice, TextDesc),
     Offer("o2", ObjectPrice(NoTotal), TextDesc),
     Offer("o2", ObjectPrice(StrTotal), TextDesc),
     Offer("o1", ObjectPrice(BoolTotal), TextDesc),
     Offer("o1", NumberPrice, TextDesc),
     Offer("o2", ObjectPrice(IntTotal(15000)), NonTextDesc),
     Offer(NoId, ObjectPrice(IntTotal(15000)), TextDesc)}

SeqsUpTo(S, n) == UNION {[1..k -> S] : k \in 0..n}

\* A group of the response: the ids under 'offerIds' and, under 'places', the
\* places in the order of the JSON object; a place is its key with its rows
\* in order, a row is its label with its list of seats.
Row(label, seats) == [row |-> label, seats |-> seats]
Place(key, rows) == [key |-> key, rows |-> rows]
Group(ids, places) == [offerIds |-> ids, places |-> places]

\* A value under a key of the response: absent, a list, or something else.
Absent == [kind |-> "absent", list |-> <<>>]
NonList == [kind |-> "other", list |-> <<>>]
List(s) == [kind |-> "list", list |-> s]

\* The decoded response: 'groups', 'offers', and whether other keys are present.
Snapshots ==
    {[groups |-> g, offers |-> o, extra |-> x] :
        g \in {List(<<>>)},
        o \in {Absent, NonList} \cup {List(s) : s \in SeqsUpTo(Offers, MaxOffers)},
        x \in {FALSE}}
    \cup {[groups |-> Absent, offers |-> List(<<>>), extra |-> FALSE],
          [groups |-> List(<<>>), offers |-> List(<<>>), extra |-> TRUE]}

EMPTY_RESPONSE == [groups |-> List(<<>>), offers |-> List(<<>>), extra |-> FALSE]

NoData == [groups |-> Absent, offers |-> Absent, extra |-> FALSE]

\* Snapshots of successive polls of one resource: offer o1 with a price that
\* is rejected or admitted, and siblings o2.
PollOffers ==
    {Offer("o1", ObjectPrice(IntTotal(15000)), TextDesc),
     Offer("o1", ObjectPrice(IntTotal(25000)), TextDesc),
     Offer("o1", NoPrice, TextDesc),
     Offer("o2", ObjectPrice(StrTotal), TextDesc),
     Offer("o2", NumberPrice, TextDesc),
     Offer("o2", ObjectPrice(IntTotal(15000)), NonTextDesc)}
PollSnapshots ==
    {[groups |-> List(<<>>), offers |-> List(s), extra |-> FALSE] :
        s \in SeqsUpTo(PollOffers, MaxOffers) \ {<<>>}}

\* Snapshots of one offer o1 with the groups of the response.
DescTexts == {"General", "Pista VIP", "Entrada GOLD", "Floor Golden"}
PlaceKeys == {"M-217", "M-250", "M-50", "PISTA", "G 2A-1_b c"}
Seats == <<Row("4", <<"12", "13">>)>>
ScenarioGroups ==
    {<<Group({"o1"}, <<Place(key, Seats)>>)>> : key \in PlaceKeys}
    \cup {<<>>,
          <<Group({"o2"}, <<Place("M-217", Seats)>>)>>,
          <<Group({"o2"}, <<Place("M-50", Seats)>>),
            Group({"o1", "o2"}, <<Place("M-217", Seats), Place("M-250", Seats)>>),
            Group({"o1"}, <<Place("M-250", Seats)>>)>>,
          <<Group({"o1"}, <<>>), Group({"o1"}, <<Place("M-217", Seats)>>)>>,
          <<Group({"o1"}, <<Place("M-217", <<>>)>>)>>,
          <<Group({"o1"}, <<Place("M-217", <<Row("4", <<>>), Row("5", <<"1">>)>>)>>)>>}
ScenarioSnapshots ==
    {[groups |-> List(g),
      offers |-> List(<<Offer("o1", ObjectPrice(IntTotal(t)), Text(d))>>),
      extra |-> FALSE] :
        g \in ScenarioGroups, d \in DescTexts, t \in {15000, 40000}}

(***************************************************************************)
(* The seen-offer store.                                                   *)
(***************************************************************************)
Range(s) == {s[k] : k \in DOMAIN s}

\* list(a_set): the elements in some order, each once
Orderings(S) == {s \in [1..Cardinality(S) -> S] : Range(s) = S}

\* The backing file: absent, a JSON list, another JSON value, or bytes that
\* are not JSON (an empty or cut-off file).
NoFile == [kind |-> "absent", ids |-> <<>>]
ListFile(s) == [kind |-> "list", ids |-> s]
OtherFile == [kind |-> "other", ids |-> <<>>]
GarbageFile == [kind |-> "garbage", ids |-> <<>>]
\* a file that exists and cannot be opened or read (no permission, a directory)
UnreadableFile == [kind |-> "unreadable", ids |-> <<>>]
\* a JSON list with an element that is itself a list or an object: set(..)
\* raises TypeError on it
NestedFile == [kind |-> "nested", ids |-> <<>>]

\* a load that loses the last element of the list
load_seen_offers_short(f) ==
    IF f.kind = "list" THEN {f.ids[k] : k \in 1..(Len(f.ids) - 1)} ELSE {}

\* a startup that does not read the file
load_seen_offers_skipped(f) == {}

\* a load without the isinstance check: set(..) of a text or an object is the
\* set of its characters or keys
load_seen_offers_unchecked(f) ==
    IF f.kind = "list" THEN Range(f.ids) ELSE IF f.kind = "other" THEN {"k"} ELSE {}

\* load_seen_offers: the set it leaves in seen_offer_ids.  Every exception
\* (open, read, decode, set(..)) ends in one of its two handlers.
load_seen_offers(f) == IF f.kind = "list" THEN Range(f.ids) ELSE {}

\* json.dump(list(seen_offer_ids), f): the files a completed save can leave
DumpedFiles(S) == {ListFile(s) : s \in Orderings(S)}

\* save_seen_offers: the files it can leave.  It completes; or makedirs/open
\* raises and the file is as it was; or the write raises after open(.., 'w')
\* has cut the file.  It never raises to its caller.
save_seen_offers(f, S) == DumpedFiles(S) \cup {f, GarbageFile}

(***************************************************************************)
(* The offer filter of check_api_for_event.                                *)
(***************************************************************************)
\* an admit condition of <= instead of <
BelowOrAtThreshold(total) == total <= MAX_PRICE_THRESHOLD * 100

\* calculated_price_val < MAX_PRICE_THRESHOLD, with calculated_price_val = total / 100
BelowThreshold(total) == total < MAX_PRICE_THRESHOLD * 100

\* isinstance(total_price_raw, (int, float)): a bool is an int
IsNumber(t) == t.kind \in {"int", "bool"}

\* Lines 166-188: "admit" goes on to the seen check, "skip" is `continue`,
\* "raise" is an exception that leaves the for loop ('total' in <a number>,
\* outside the try of line 168)
PriceVerdict(offer) ==
    CASE offer.price.kind = "absent" -> "skip"
      [] offer.price.kind = "number" -> "raise"
      [] OTHER ->
            IF offer.price.total.kind = "absent" THEN "skip"
            ELSE IF ~IsNumber(offer.price.total) THEN "skip"
            ELSE IF BelowThreshold(offer.price.total.val) THEN "admit"
            ELSE "skip"

\* a seen check that never finds the id
NeverSeen(id, seen) == FALSE

\* current_offer_id and current_offer_id in seen_offer_ids
AlreadySeen(id, seen) == id # NoId /\ id \in seen

\* offer_type_description.lower() raises on a value that is not a text
EnrichRaises(offer) == offer.desc.kind # "text"

\* a dispatch that never adds the id
ShouldMarkNever(any, id) == FALSE

\* a mark that does not look at the deliveries' results
ShouldMarkUnsent(any, id) == id # NoId

\* any_message_sent_successfully and current_offer_id
ShouldMark(any, id) == any /\ id # NoId

\* a baseline check that never matches
NeverEmptyResponse(d) == FALSE

\* data != EMPTY_RESPONSE
IsEmptyResponse(d) == d = EMPTY_RESPONSE

\* isinstance(offers_data, list) and offers_data
HasOffers(d) == d.offers.kind = "list" /\ d.offers.list # <<>>

\* a check_api_for_event without its last handler: an exception raised
\* while the offers are processed reaches main
ContainedUnlessRaised(o) == o # "raised"

\* except Exception at the end of check_api_for_event: whatever ends the
\* run, the call returns normally to the for loop of main
Contained(o) == TRUE

\* send_telegram_message_to_single_chat: True or False, as the channel decides
SendResults == BOOLEAN

(***************************************************************************)
(* Texts the code looks into, spelled out character by character.          *)
(***************************************************************************)
Spell(text) ==
    CASE text = "General" -> <<"G", "e", "n", "e", "r", "a", "l">>
      [] text = "Pista VIP" -> <<"P", "i", "s", "t", "a", " ", "V", "I", "P">>
      [] text = "Entrada GOLD" ->
            <<"E", "n", "t", "r", "a", "d", "a", " ", "G", "O", "L", "D">>
      [] text = "Floor Golden" ->
            <<"F", "l", "o", "o", "r", " ", "G", "o", "l", "d", "e", "n">>
      [] text = "pista" -> <<"p", "i", "s", "t", "a">>
      [] text = "floor" -> <<"f", "l", "o", "o", "r">>
      [] text = "gold" -> <<"g", "o", "l", "d">>
      [] text = "golden" -> <<"g", "o", "l", "d", "e", "n">>
      [] text = "M-217" -> <<"M", "-", "2", "1", "7">>
      [] text = "M-250" -> <<"M", "-", "2", "5", "0">>
      [] text = "M-50" -> <<"M", "-", "5", "0">>
      [] text = "PISTA" -> <<"P", "I", "S", "T", "A">>
      [] text = "G 2A-1_b c" -> <<"G", " ", "2", "A", "-", "1", "_", "b", " ", "c">>
      [] OTHER -> <<>>

UpperCase ==
    <<"A", "B", "C", "D", "E", "F", "G", "H", "I", "J", "K", "L", "M",
      "N", "O", "P", "Q", "R", "S", "T", "U", "V", "W", "X", "Y", "Z">>
LowerCase ==
    <<"a", "b", "c", "d", "e", "f", "g", "h", "i", "j", "k", "l", "m",
      "n", "o", "p", "q", "r", "s", "t", "u", "v", "w", "x", "y", "z">>
DigitChars == <<"0", "1", "2", "3", "4", "5", "6", "7", "8", "9">>

Min(S) == CHOOSE x \in S : \A y \in S : x <= y
Max(S) == CHOOSE x \in S : \A y \in S : y <= x

\* str.lower
lower(s) ==
    [k \in DOMAIN s |->
        IF \E n \in DOMAIN UpperCase : UpperCase[n] = s[k]
          THEN LowerCase[CHOOSE n \in DOMAIN UpperCase : UpperCase[n] = s[k]]
          ELSE s[k]]

\* `sub in s` for two texts
Contains(s, sub) ==
    \E k \in 0..(Len(s) - Len(sub)) : SubSeq(s, k + 1, k + Len(sub)) = sub

\* \d and \w of re, for the characters of the model
IsDigit(c) == c \in Range(DigitChars)
IsWord(c) == IsDigit(c) \/ c \in Range(UpperCase) \/ c \in Range(LowerCase) \/ c = "_"

\* where the longest run of characters of the set Ok that starts at a ends
RunEnd(s, a, Ok) ==
    CHOOSE e \in a..Len(s) :
        /\ \A k \in a..e : s[k] \in Ok
        /\ e = Len(s) \/ s[e + 1] \notin Ok

\* int(..) of a text of digits
RECURSIVE IntOf(_)
IntOf(s) ==
    IF s = <<>> THEN 0
    ELSE 10 * IntOf(SubSeq(s, 1, Len(s) - 1))
         + (CHOOSE n \in DOMAIN DigitChars : DigitChars[n] = s[Len(s)]) - 1

(***************************************************************************)
(* Enrichment: the seat text, the image and the message.                   *)
(***************************************************************************)
\* a sector that is the whole place key
SectorOfWhole(key) == Spell(key)

\* re.search(r'\d[\d\w-]*', place_key): from the first digit on, the longest
\* run of digits, word characters and hyphens; the whole key if it has no digit
SectorOf(key) ==
    LET s == Spell(key)
        P == {k \in DOMAIN s : IsDigit(s[k])}
        InSector == {c \in Range(s) : IsWord(c) \/ c = "-"}
    IN  IF P = {} THEN s ELSE SubSeq(s, Min(P), RunEnd(s, Min(P), InSector))

\* ", ".join(seat_list)
JoinSeats(seats) ==
    [k \in 1..(2 * Len(seats) - 1) |->
        IF k % 2 = 1 THEN seats[(k + 1) \div 2] ELSE ", "]

Line(label, text) == [label |-> label, text |-> text]

\* Lines 196-221: the lines for the first group that lists the offer's id,
\* from the first place of the group and the first row of the place.
seat_info_lines(id, groups) ==
    LET G == {k \in DOMAIN groups : id \in groups[k].offerIds}
    IN  IF id = NoId \/ G = {} THEN <<>>
        ELSE LET places == groups[Min(G)].places
             IN  IF places = <<>> THEN <<>>
                 ELSE LET rows == places[1].rows
                          sector == <<Line("SECTOR", SectorOf(places[1].key))>>
                      IN  IF rows = <<>> THEN sector
                          ELSE IF rows[1].seats = <<>>
                            THEN sector \o <<Line("FILA", <<rows[1].row>>)>>
                          ELSE sector \o <<Line("FILA", <<rows[1].row>>),
                                          Line("ASIENTO", JoinSeats(rows[1].seats))>>

\* extracted_sector_value_for_image = None
NoSector == -1

\* Lines 249-259: int(..) of the first run of digits (re.search(r'\d+', ..))
\* of the first SECTOR line that has one
extracted_sector_value_for_image(lines) ==
    LET L == {k \in DOMAIN lines :
                /\ lines[k].label = "SECTOR"
                /\ \E n \in DOMAIN lines[k].text : IsDigit(lines[k].text[n])}
    IN  IF L = {} THEN NoSector
        ELSE LET s == lines[Min(L)].text
                 a == Min({n \in DOMAIN s : IsDigit(s[n])})
             IN  IntOf(SubSeq(s, a, RunEnd(s, a, Range(DigitChars))))

\* The entries of SOURCES_DIR.  An entry of the kind "sector" is one that
\* lines 265-267 accept (lower-cased it ends in ".jpg", its stem is all
\* digits) with the number int(stem); it is exact if its name is the text
\* f"{num}.jpg", and not exact otherwise (200.JPG or 0200.jpg for 200).  An
\* entry is readable if open(.., 'rb') succeeds on it.
Jpg(kind, num) == [kind |-> kind, num |-> num, exact |-> TRUE, readable |-> TRUE]
LooseJpg(num) == [kind |-> "sector", num |-> num, exact |-> FALSE, readable |-> TRUE]
Unreadable(e) == [e EXCEPT !.readable = FALSE]

\* the image directories of the scenarios
SourceDirs ==
    {{},
     {Jpg("sector", 100), Jpg("sector", 200), Jpg("sector", 300)},
     {Jpg("pista", 0), Jpg("golden", 0), Jpg("sector", 200)},
     {Jpg("pista", 0), Jpg("sector", 300)},
     {Jpg("sector", 100), LooseJpg(200)},
     {Unreadable(Jpg("sector", 100)), Unreadable(Jpg("golden", 0))}}

\* a path under SOURCES_DIR: pista.jpg, golden.jpg or f"{num}.jpg"
Path(kind, num) == [kind |-> kind, num |-> num]
\* image_to_send_path = None
NoImage == Path("none", 0)

\* os.path.exists(path)
exists(dir, path) ==
    \E e \in dir : e.kind = path.kind /\ e.num = path.num /\ e.exact

\* open(path, 'rb') succeeds
CanOpen(dir, path) ==
    \E e \in dir : e.kind = path.kind /\ e.num = path.num /\ e.exact /\ e.readable

\* Lines 229-281: the image for a description and the seat lines.
SelectImage(desc, lines, dir) ==
    LET offer_desc_lower == lower(Spell(desc))
        Has(word) == Contains(offer_desc_lower, Spell(word))
        keyword_image ==
            IF Has("pista") \/ Has("floor")
              THEN IF exists(dir, Path("pista", 0)) THEN Path("pista", 0) ELSE NoImage
            ELSE IF Has("gold") \/ Has("golden")
              THEN IF exists(dir, Path("golden", 0)) THEN Path("golden", 0) ELSE NoImage
            ELSE NoImage
        value == extracted_sector_value_for_image(lines)
        candidate_image_numbers ==
            {e.num : e \in {e \in dir : e.kind = "sector" /\ e.num <= value}}
    IN  IF keyword_image # NoImage \/ lines = <<>> THEN keyword_image
        ELSE IF value = NoSector \/ candidate_image_numbers = {} THEN NoImage
        ELSE IF exists(dir, Path("sector", Max(candidate_image_numbers)))
          THEN Path("sector", Max(candidate_image_numbers))
        ELSE NoImage

EVENT_DATES ==
    <<"30/05/26", "31/05/26", "02/06/26", "03/06/26", "06/06/26",
      "07/06/26", "10/06/26", "11/06/26", "14/06/26", "15/06/26">>

\* Lines 164, 174-175, 283-297: what the message says, before each part is
\* passed through escape_markdown_v2 (which puts a backslash before the
\* characters of its list): the description, the date label, the seat lines
\* and the price f"{total / 100:.2f}" as units and cents.
Message(offer, date, lines) ==
    [type |-> offer.desc.text,
     date |-> date,
     lines |-> lines,
     price |-> <<offer.price.total.val \div 100, offer.price.total.val % 100>>]
NoMessage == [type |-> "", date |-> "", lines |-> <<>>, price |-> <<0, 0>>]

\* send_telegram_message_to_single_chat with a photo_path: if the path is
\* given and exists, open(.., 'rb') and send_photo, where a failing open ends
\* in the handler of line 124 with nothing sent; else send_message.
Deliveries(image, present, dir) ==
    IF image # NoImage /\ present
      THEN IF CanOpen(dir, image)
             THEN {[mode |-> "photo", ok |-> r] : r \in SendResults}
             ELSE {[mode |-> "none", ok |-> FALSE]}
      ELSE {[mode |-> "text", ok |-> r] : r \in SendResults}

(***************************************************************************)
(* Configuration.                                                          *)
(***************************************************************************)
\* What main finds at startup: TELEGRAM_BOT_TOKEN set or not;
\* TELEGRAM_CHAT_IDS unset (or empty), set with no id left after the parsing
\* ("blank": only commas and spaces), or a list of ids; and whether EVENT_IDS
\* and EVENT_DATES have the same length.
Configs == [token : BOOLEAN, chats : {"unset", "blank", "ids"}, dates : BOOLEAN]
GoodConfig == [token |-> TRUE, chats |-> "ids", dates |-> TRUE]

\* a main that does not look at the parsed list of chat ids
ConfigErrorUnparsed(c) == ~c.token \/ c.chats = "unset" \/ ~c.dates

\* the checks of main that end in exit(1)
ConfigError(c) == ~c.token \/ c.chats = "unset" \/ c.chats = "blank" \/ ~c.dates

\* a handler that goes on with the loop at once
AfterLoopErrorNoSleep == "jitter"

\* except Exception in the while loop of main: the error is logged and the
\* handler sleeps CHECK_INTERVAL_SECONDS
AfterLoopError == "backoff"

(***************************************************************************)
(* State.                                                                  *)
(***************************************************************************)
VARIABLES
    pc,              \* where main (and the check_api_for_event it awaits) stands
    index,           \* main: position in EVENT_IDS
    data,            \* check_api_for_event: the decoded response
    i,               \* check_api_for_event: position in offers_data
    sent,            \* results of the deliveries of offer i so far, by recipient
    message_to_send, \* check_api_for_event: the message of offer i
    image_to_send_path,  \* check_api_for_event: the image of offer i
    seen_offer_ids,  \* the in-memory set
    file,            \* the file at SEEN_OFFERS_FILE_PATH
    outcome,         \* how the last run of check_api_for_event ended
    seen0,           \* history: seen_offer_ids when the run began
    tried,           \* history: offers of this run with a delivery attempt
    oks,             \* history: offers of this run with a successful delivery
    fetched,         \* history: resources fetched in this pass, in order
    saved,           \* history: the set written by the last save that completed
    delivered,       \* history: ids whose dispatch had a success, in this process
    config,          \* what main finds at startup
    sources,         \* the entries of SOURCES_DIR
    run,             \* harness: 0 in main, 1 and 2 in the replay, 3 in the scenarios,
                     \* 4 and 5 in the two polls
    first            \* replay harness: what the first run did

vars == <<pc, index, data, i, sent, message_to_send, image_to_send_path,
          seen_offer_ids, file, outcome, seen0, tried, oks, fetched, saved,
          delivered, config, sources, run, first>>

\* what no step changes
setup == <<config, sources>>
\* what the enrichment of an offer leaves for its delivery loop
enriched == <<message_to_send, image_to_send_path>>

NoSave == [valid |-> FALSE, set |-> {}]
Saved(S) == [valid |-> TRUE, set |-> S]
NoFirst == [data |-> NoData, tried |-> {}, oks |-> {}, seen0 |-> {}]

offers_data == data.offers.list
any_message_sent_successfully == \E k \in DOMAIN sent : sent[k].ok

InitFiles == {NoFile, OtherFile, GarbageFile, ListFile(<<"o1">>)}

\* A fresh process: the module's globals, nothing loaded yet.
Init ==
    /\ pc = "boot"
    /\ index = 1
    /\ data = NoData
    /\ i = 0
    /\ sent = <<>>
    /\ message_to_send = NoMessage
    /\ image_to_send_path = NoImage
    /\ seen_offer_ids = {}
    /\ file \in InitFiles
    /\ outcome = "none"
    /\ seen0 = {}
    /\ tried = {}
    /\ oks = {}
    /\ fetched = <<>>
    /\ saved = NoSave
    /\ delivered = {}
    /\ config \in Configs
    /\ sources = {}
    /\ run = 0
    /\ first = NoFirst

(***************************************************************************)
(* main.                                                                   *)
(***************************************************************************)
\* main up to the while loop: the checks of the configuration, each ending
\* the process with exit(1); then load_seen_offers and the startup test
\* messages, whose results are only logged.
Boot ==
    /\ pc = "boot"
    /\ IF ConfigError(config)
         THEN pc' = "exited" /\ UNCHANGED seen_offer_ids
         ELSE pc' = "jitter" /\ seen_offer_ids' = load_seen_offers(file)
    /\ index' = 1
    /\ fetched' = <<>>
    /\ UNCHANGED <<data, i, sent, file, outcome, seen0, tried, oks, saved,
                   delivered, run, first, enriched, setup>>

\* await asyncio.sleep(random_request_delay)
Jitter ==
    /\ pc = "jitter"
    /\ pc' = "fetch"
    /\ UNCHANGED <<delivered, index, data, i, sent, seen_offer_ids, file, outcome, seen0,
                   tried, oks, fetched, saved, run, first, enriched, setup>>

(***************************************************************************)
(* check_api_for_event.                                                    *)
(***************************************************************************)
\* The call returns to its caller.
Return(o) ==
    /\ pc' = "returned"
    /\ outcome' = o

\* The end of one iteration of `for i, offer in enumerate(offers_data)`
\* (after a dispatch, with the pause of asyncio.sleep(1) before the next).
NextOffer ==
    /\ i' = i + 1
    /\ sent' = <<>>
    /\ message_to_send' = NoMessage
    /\ image_to_send_path' = NoImage
    /\ IF i < Len(offers_data)
         THEN pc' = "offer" /\ outcome' = outcome
         ELSE Return("done")

\* The decoded response d: the baseline-empty check and the offers check.
Decoded(d) ==
    /\ data' = d
    /\ IF ~IsEmptyResponse(d) /\ HasOffers(d)
         THEN pc' = "offer" /\ i' = 1 /\ outcome' = "offers"
         ELSE /\ i' = 0
              /\ IF IsEmptyResponse(d) THEN Return("empty") ELSE Return("no_offers")

\* what the endpoint can answer: any snapshot in main and in the replay, a
\* snapshot of one offer with its group in the enrichment scenarios, a
\* snapshot of o1 and its siblings in the two polls
Responses(r) ==
    IF r = 3 THEN ScenarioSnapshots
    ELSE IF r \in {4, 5} THEN PollSnapshots
    ELSE Snapshots

\* requests.get, raise_for_status, response.json and the checks on the result.
Fetch ==
    /\ pc = "fetch"
    /\ fetched' = Append(fetched, index)
    /\ seen0' = seen_offer_ids
    /\ tried' = {}
    /\ oks' = {}
    /\ sent' = <<>>
    /\ \/ \E o \in {"transport", "http", "decode"} :
            data' = NoData /\ i' = 0 /\ Return(o)
       \/ \E d \in Responses(run) :
            (run = 2 => d = first.data) /\ Decoded(d)
    /\ UNCHANGED <<delivered, index, seen_offer_ids, file, saved, run, first, enriched, setup>>

\* One offer up to the delivery loop: the price check, the seen check, the
\* seat text, the image and the message.
FilterOffer ==
    /\ pc = "offer"
    /\ LET offer == offers_data[i]
           verdict == PriceVerdict(offer)
           lines == seat_info_lines(offer.id, data.groups.list)
       IN  IF verdict = "raise"
             THEN Return("raised") /\ UNCHANGED <<i, sent, enriched>>
           ELSE IF verdict = "skip" \/ AlreadySeen(offer.id, seen_offer_ids)
             THEN NextOffer
           ELSE IF EnrichRaises(offer)
             THEN Return("raised") /\ UNCHANGED <<i, sent, enriched>>
           ELSE /\ pc' = "send"
                /\ sent' = <<>>
                /\ image_to_send_path' = SelectImage(offer.desc.text, lines, sources)
                /\ message_to_send' = Message(offer, EVENT_DATES[index], lines)
                /\ UNCHANGED <<i, outcome>>
    /\ UNCHANGED <<delivered, index, data, seen_offer_ids, file, seen0, tried, oks, fetched,
                   saved, run, first, setup>>

\* os.path.exists(photo_path) at the time of the delivery: the image that the
\* enrichment found may have been removed since
StillThere(image) == IF image = NoImage THEN {FALSE} ELSE BOOLEAN

\* One turn of `for chat_id_to_send_to in telegram_chat_id_to_send`.
Send ==
    /\ pc = "send"
    /\ \E present \in StillThere(image_to_send_path) :
       \E d \in Deliveries(image_to_send_path, present, sources) :
        /\ sent' = Append(sent, [chat |-> Len(sent) + 1, ok |-> d.ok, mode |-> d.mode])
        /\ tried' = tried \cup {i}
        /\ oks' = IF d.ok THEN oks \cup {i} ELSE oks
    /\ pc' = IF Len(sent) + 1 = NumChats THEN "mark" ELSE "send"
    /\ UNCHANGED <<delivered, index, data, i, seen_offer_ids, file, outcome, seen0, fetched,
                   saved, run, first, enriched, setup>>

\* After the delivery loop: add the id and save, then on to the next offer.
Mark ==
    /\ pc = "mark"
    /\ LET id == offers_data[i].id
       IN  IF ShouldMark(any_message_sent_successfully, id)
             THEN /\ seen_offer_ids' = seen_offer_ids \cup {id}
                  /\ file' \in save_seen_offers(file, seen_offer_ids')
                  /\ saved' = IF file' \in DumpedFiles(seen_offer_ids')
                                THEN Saved(seen_offer_ids')
                                ELSE saved
             ELSE UNCHANGED <<seen_offer_ids, file, saved>>
    /\ delivered' = IF any_message_sent_successfully /\ offers_data[i].id # NoId
                       THEN delivered \cup {offers_data[i].id}
                       ELSE delivered
    /\ NextOffer
    /\ UNCHANGED <<index, data, seen0, tried, oks, fetched, run, first, setup>>

(***************************************************************************)
(* The poll loop of main.                                                  *)
(***************************************************************************)
\* Back in `for index, event_id in enumerate(EVENT_IDS)`: the next resource,
\* or the end of the pass.  An exception that reached main would end the pass
\* in the handler of the while loop.
NextEvent ==
    /\ pc = "returned"
    /\ run = 0
    /\ IF ~Contained(outcome)
         THEN pc' = AfterLoopError /\ index' = index
         ELSE IF index < NumEvents
           THEN pc' = "jitter" /\ index' = index + 1
           ELSE pc' = "interval" /\ index' = index
    /\ data' = NoData
    /\ i' = 0
    /\ sent' = <<>>
    /\ seen0' = {}
    /\ tried' = {}
    /\ oks' = {}
    /\ UNCHANGED <<delivered, seen_offer_ids, file, outcome, fetched, saved, run, first, enriched, setup>>

\* await asyncio.sleep(CHECK_INTERVAL_SECONDS), then the next pass.
Interval ==
    /\ pc = "interval"
    /\ pc' = "jitter"
    /\ index' = 1
    /\ fetched' = <<>>
    /\ UNCHANGED <<delivered, data, i, sent, seen_offer_ids, file, outcome, seen0, tried, oks,
                   saved, run, first, enriched, setup>>

\* The process is killed and started again.  Nothing of its memory is kept;
\* a kill inside save_seen_offers, after open(.., 'w'), leaves a cut file.
Crash ==
    /\ run = 0
    /\ pc # "boot"
    /\ file' \in IF pc = "mark"
                    /\ ShouldMark(any_message_sent_successfully, offers_data[i].id)
                   THEN {file, GarbageFile}
                   ELSE {file}
    /\ pc' = "boot"
    /\ index' = 1
    /\ data' = NoData
    /\ i' = 0
    /\ sent' = <<>>
    /\ seen_offer_ids' = {}
    /\ outcome' = "none"
    /\ seen0' = {}
    /\ tried' = {}
    /\ oks' = {}
    /\ fetched' = <<>>
    /\ delivered' = {}
    /\ message_to_send' = NoMessage
    /\ image_to_send_path' = NoImage
    /\ UNCHANGED <<saved, run, first, setup>>

\* An exception raised in the body of the while loop outside
\* check_api_for_event (a MemoryError, say) reaches the handler of main.
LoopError ==
    /\ pc = "jitter"
    /\ run = 0
    /\ pc' = AfterLoopError
    /\ outcome' = "loop_error"
    /\ UNCHANGED <<index, data, i, sent, seen_offer_ids, file, seen0, tried, oks,
                   fetched, saved, delivered, run, first, enriched, setup>>

\* the handler's await asyncio.sleep(CHECK_INTERVAL_SECONDS), then the next
\* turn of the while loop: a pass from the first resource
Backoff ==
    /\ pc = "backoff"
    /\ pc' = "jitter"
    /\ index' = 1
    /\ fetched' = <<>>
    /\ UNCHANGED <<data, i, sent, seen_offer_ids, file, outcome, seen0, tried, oks,
                   saved, delivered, run, first, enriched, setup>>

Next ==
    \/ Boot
    \/ Jitter
    \/ Fetch
    \/ FilterOffer
    \/ Send
    \/ Mark
    \/ NextEvent
    \/ Interval
    \/ LoopError
    \/ Backoff
    \/ Crash

Spec == Init /\ [][Next]_vars

(***************************************************************************)
(* Replay: check_api_for_event called twice in succession for one resource *)
(* with the same response, the seen-offer set carried over.                *)
(***************************************************************************)
InitReplay ==
    /\ pc = "fetch"
    /\ index = 1
    /\ data = NoData
    /\ i = 0
    /\ sent = <<>>
    /\ message_to_send = NoMessage
    /\ image_to_send_path = NoImage
    /\ seen_offer_ids \in SUBSET OfferIds
    /\ file \in DumpedFiles(seen_offer_ids)
    /\ outcome = "none"
    /\ seen0 = {}
    /\ tried = {}
    /\ oks = {}
    /\ fetched = <<>>
    /\ saved = NoSave
    /\ delivered = {}
    /\ config = GoodConfig
    /\ sources = {}
    /\ run = 1
    /\ first = NoFirst

ReplayAgain ==
    /\ pc = "returned"
    /\ run = 1
    /\ run' = 2
    /\ first' = [data |-> data, tried |-> tried, oks |-> oks, seen0 |-> seen0]
    /\ pc' = "fetch"
    /\ data' = NoData
    /\ i' = 0
    /\ sent' = <<>>
    /\ seen0' = {}
    /\ tried' = {}
    /\ oks' = {}
    /\ UNCHANGED <<delivered, index, seen_offer_ids, file, outcome, fetched, saved,
                   enriched, setup>>

NextReplay ==
    \/ Fetch
    \/ FilterOffer
    \/ Send
    \/ Mark
    \/ ReplayAgain

SpecReplay == InitReplay /\ [][NextReplay]_vars

(***************************************************************************)
(* Two polls: check_api_for_event called twice in succession for one       *)
(* resource, each time with what the endpoint then answers, starting from   *)
(* the empty seen-offer set.                                               *)
(***************************************************************************)
InitPolls ==
    /\ pc = "fetch"
    /\ index = 1
    /\ data = NoData
    /\ i = 0
    /\ sent = <<>>
    /\ message_to_send = NoMessage
    /\ image_to_send_path = NoImage
    /\ seen_offer_ids = {}
    /\ file = NoFile
    /\ outcome = "none"
    /\ seen0 = {}
    /\ tried = {}
    /\ oks = {}
    /\ fetched = <<>>
    /\ saved = NoSave
    /\ delivered = {}
    /\ config = GoodConfig
    /\ sources = {}
    /\ run = 4
    /\ first = NoFirst

PollAgain ==
    /\ pc = "returned"
    /\ run = 4
    /\ run' = 5
    /\ first' = [data |-> data, tried |-> tried, oks |-> oks, seen0 |-> seen0]
    /\ pc' = "fetch"
    /\ data' = NoData
    /\ i' = 0
    /\ sent' = <<>>
    /\ seen0' = {}
    /\ tried' = {}
    /\ oks' = {}
    /\ UNCHANGED <<delivered, index, seen_offer_ids, file, outcome, fetched, saved,
                   enriched, setup>>

NextPolls ==
    \/ Fetch
    \/ FilterOffer
    \/ Send
    \/ Mark
    \/ PollAgain

SpecPolls == InitPolls /\ [][NextPolls]_vars

(***************************************************************************)
(* Enrichment scenarios: one run of check_api_for_event for the first      *)
(* resource, on a snapshot of one offer o1 with its group, with an image   *)
(* directory, starting from the empty seen-offer set.                      *)
(***************************************************************************)
InitEnrich ==
    /\ pc = "fetch"
    /\ index = 1
    /\ data = NoData
    /\ i = 0
    /\ sent = <<>>
    /\ message_to_send = NoMessage
    /\ image_to_send_path = NoImage
    /\ seen_offer_ids = {}
    /\ file = NoFile
    /\ outcome = "none"
    /\ seen0 = {}
    /\ tried = {}
    /\ oks = {}
    /\ fetched = <<>>
    /\ saved = NoSave
    /\ delivered = {}
    /\ config = GoodConfig
    /\ sources \in SourceDirs
    /\ run = 3
    /\ first = NoFirst

NextEnrich ==
    \/ Fetch
    \/ FilterOffer
    \/ Send
    \/ Mark

SpecEnrich == InitEnrich /\ [][NextEnrich]_vars

(***************************************************************************)
(* Startup over the files load_seen_offers can find.                       *)
(***************************************************************************)
MaxFileLen == 3
FileIds == OfferIds \cup {"o3"}
LoadFiles ==
    {NoFile, OtherFile, GarbageFile, UnreadableFile, NestedFile}
    \cup {ListFile(s) : s \in SeqsUpTo(FileIds, MaxFileLen)}

InitLoad ==
    /\ pc = "boot"
    /\ index = 1
    /\ data = NoData
    /\ i = 0
    /\ sent = <<>>
    /\ message_to_send = NoMessage
    /\ image_to_send_path = NoImage
    /\ seen_offer_ids = {}
    /\ file \in LoadFiles
    /\ outcome = "none"
    /\ seen0 = {}
    /\ tried = {}
    /\ oks = {}
    /\ fetched = <<>>
    /\ saved = NoSave
    /\ delivered = {}
    /\ config = GoodConfig
    /\ sources = {}
    /\ run = 0
    /\ first = NoFirst

NextLoad ==
    \/ Boot
    \/ Jitter

SpecLoad == InitLoad /\ [][NextLoad]_vars

(***************************************************************************)
(* Properties.                                                             *)
(***************************************************************************)
InRun == pc \in {"offer", "send", "mark", "returned"}
Positions == DOMAIN offers_data
\* the offers whose iteration of the for loop has ended
Completed == {j \in Positions : j < i}
IdOf(j) == offers_data[j].id
NewlySeen == seen_offer_ids \ seen0
\* a price object whose total is a JSON number
NumericTotal(j) ==
    /\ offers_data[j].price.kind = "object"
    /\ offers_data[j].price.total.kind = "int"
TotalOf(j) == offers_data[j].price.total.val

\* C1 as stated: in a run of check_api_for_event, every offer whose iteration
\* has ended and that had a successful delivery has its id in the seen-offer
\* set, and every id that entered the set in this run is the id of an offer
\* that had a successful delivery.
C1_AddedIffDelivered ==
    InRun =>
        /\ \A j \in Completed : j \in oks => IdOf(j) \in seen_offer_ids
        /\ NewlySeen \subseteq {IdOf(j) : j \in oks}

\* C1 amended: the same for the offers that have a usable (non-empty) id; an
\* offer without one is never added, whatever its deliveries returned.
C1_AddedIffDeliveredWithId ==
    InRun =>
        /\ \A j \in Completed :
              j \in oks /\ IdOf(j) # NoId => IdOf(j) \in seen_offer_ids
        /\ NewlySeen \subseteq {IdOf(j) : j \in oks}
        /\ NoId \notin seen_offer_ids

C1_Witness ==
    /\ pc = "returned"
    /\ \E j \in oks : IdOf(j) # NoId /\ IdOf(j) \in NewlySeen
    /\ \E j \in tried \ oks : IdOf(j) \notin seen_offer_ids

\* the second run has ended (or is under way) on the snapshot of the first
Replayed == run = 2 /\ InRun /\ data = first.data /\ HasOffers(data)
\* the dispatches of offers with this id that reached a recipient, both runs
Notifications(id) ==
    Cardinality({j \in first.oks : IdOf(j) = id})
    + Cardinality({j \in oks : IdOf(j) = id})

C3_AtOrAboveThresholdRejected ==
    InRun =>
        \A j \in Positions :
            NumericTotal(j) /\ TotalOf(j) >= MAX_PRICE_THRESHOLD * 100 =>
                /\ j \notin tried
                /\ IdOf(j) \in NewlySeen => \E k \in oks : IdOf(k) = IdOf(j)

C3_Witness ==
    /\ pc = "returned"
    /\ outcome = "done"
    /\ \E j \in Positions :
          /\ NumericTotal(j)
          /\ TotalOf(j) = MAX_PRICE_THRESHOLD * 100
          /\ IdOf(j) \notin seen_offer_ids
    /\ oks # {}

\* C4 as stated: an offer without a price object, without 'total' in it, or
\* with a total that is not a JSON number gets no delivery attempt.
C4_UnprocessableNeverDelivered ==
    InRun =>
        \A j \in Positions : ~NumericTotal(j) => j \notin tried

\* its processing was not cut short: no earlier offer of this run has its id
FirstWithId(j) == \A k \in Positions : k < j => IdOf(k) # IdOf(j)

\* C5 as stated: when the run has ended, every offer with a numeric price
\* below the threshold, a text description and an id that was not seen when
\* the run began (and is not the id of an earlier offer) has been dispatched,
\* whatever its siblings are.
C5_SiblingsIsolated ==
    pc = "returned" =>
        \A j \in Positions :
            /\ NumericTotal(j)
            /\ TotalOf(j) < MAX_PRICE_THRESHOLD * 100
            /\ offers_data[j].desc.kind = "text"
            /\ IdOf(j) \notin seen0
            /\ FirstWithId(j)
            => j \in tried

\* C6: a run on a response equal to the baseline-empty value ends as the
\* no-data result, with no delivery attempt and the set as it was.
C6_BaselineEmptySkipped ==
    InRun /\ data = [groups |-> List(<<>>), offers |-> List(<<>>), extra |-> FALSE] =>
        /\ pc = "returned"
        /\ outcome = "empty"
        /\ tried = {}
        /\ sent = <<>>
        /\ seen_offer_ids = seen0

C6_Witness ==
    /\ pc = "returned"
    /\ data = EMPTY_RESPONSE
    /\ seen_offer_ids # {}

UpTo(n) == [k \in 1..n |-> k]

\* C7: in every pass the resources are fetched once each in configured order:
\* before the fetch of resource k exactly 1..k-1 have been fetched, after it
\* exactly 1..k, and the pass ends with all of them fetched, however the runs
\* of check_api_for_event ended.
C7_EachResourceOncePerPass ==
    /\ pc \in {"jitter", "fetch"} => fetched = UpTo(index - 1)
    /\ InRun /\ run = 0 => fetched = UpTo(index)
    /\ pc = "interval" => fetched = UpTo(NumEvents)
    /\ pc = "backoff" => outcome = "loop_error"

C7_Witness ==
    /\ pc = "fetch"
    /\ index = NumEvents
    /\ outcome \in {"raised", "transport", "http", "decode"}

\* C8 as stated: whenever the file changes, it becomes a complete dump of the
\* in-memory set; and the step that adds an id and saves leaves such a file.
C8_AtomicPersist ==
    [][/\ file' # file => file' \in DumpedFiles(seen_offer_ids')
       /\ (/\ pc = "mark"
           /\ ShouldMark(any_message_sent_successfully, offers_data[i].id)
           /\ pc' # "boot")
          => file' \in DumpedFiles(seen_offer_ids')]_vars

\* C9 as stated (first part): once main is past load_seen_offers, the ids
\* written by the last save that completed are in the in-memory set, also
\* after the process was killed and started again.
C9_PersistedSurviveRestart ==
    pc # "boot" /\ saved.valid => saved.set \subseteq seen_offer_ids

SeenAtTurn(j) == seen0 \cup {IdOf(k) : k \in {k \in oks : k < j /\ IdOf(k) # NoId}}
\* offer j passed the price check and the seen check
PassedFilter(j) ==
    /\ PriceVerdict(offers_data[j]) = "admit"
    /\ IdOf(j) \notin SeenAtTurn(j)
\* the turn of offer j in the for loop has ended, normally or in an exception
Ended(j) == j < i \/ (j = i /\ pc = "returned")
\* the recipients of the attempts made for the offer at hand, in order
Recipients == [k \in DOMAIN sent |-> sent[k].chat]

\* C11 as stated: the attempts for an offer go to the recipients in the order
\* of the list, one each, whatever the earlier results, so that the delivery
\* loop ends with one attempt per recipient; every offer that passed the
\* price check and the seen check has had its attempts when its turn has
\* ended; and an offer whose attempts all failed does not put its id into
\* the seen-offer set.
C11_EveryRecipientOnce ==
    InRun =>
        /\ pc = "send" => Recipients = UpTo(Len(sent)) /\ Len(sent) < NumChats
        /\ pc = "mark" => Recipients = UpTo(NumChats)
        /\ \A j \in Positions : Ended(j) /\ PassedFilter(j) => j \in tried
        /\ \A j \in Completed :
              /\ j \in tried \ oks
              /\ \A k \in oks : IdOf(k) # IdOf(j)
              => IdOf(j) \notin NewlySeen

\* a configuration that main refuses
BadConfig == ~config.token \/ config.chats \in {"unset", "blank"} \/ ~config.dates

\* C13: with a missing token, a missing or empty recipient list or lists of
\* resources and labels of different lengths, the process never leaves the
\* startup: it exits, no resource is fetched, no delivery is attempted, and
\* the in-memory set and the file stay as they were.
C13_ConfigErrorsFatal ==
    [][BadConfig =>
          /\ pc' \in {"boot", "exited"}
          /\ fetched' = <<>>
          /\ tried' = {}
          /\ sent' = <<>>
          /\ seen_offer_ids' = seen_offer_ids
          /\ file' = file]_vars

\* the process has exited on a recipient list that is set but holds no id
C13_Witness ==
    /\ pc = "exited"
    /\ config = [token |-> TRUE, chats |-> "blank", dates |-> TRUE]
    /\ file # NoFile

\* C18: while the process runs, no delivery attempt is made for an offer
\* whose id is the id of a dispatch that ended with a successful delivery.
C18_NoAttemptAfterSuccess ==
    [][Len(sent') > Len(sent) => IdOf(i) \notin delivered]_vars

\* a later run meets an admissible offer whose id was delivered by an earlier
\* run of this process, and passes over it
C18_Witness ==
    /\ InRun
    /\ \E j \in Completed :
          /\ IdOf(j) \in delivered \cap seen0
          /\ PriceVerdict(offers_data[j]) = "admit"
          /\ j \notin tried

\* C19: in a running process the in-memory set and the file change only in
\* the step that follows the delivery loop of an offer with a successful
\* delivery; a run that ends in a transport error, an HTTP error status, a
\* decode error, the baseline-empty response or a response without a
\* non-empty list of offers has attempted no delivery and changed neither;
\* and a run that ends without a delivery attempt (every offer rejected)
\* leaves the set as it was.
C19_StoreChangedOnlyByDispatch ==
    [][/\ (pc # "boot" /\ pc' # "boot"
           /\ (seen_offer_ids' # seen_offer_ids \/ file' # file))
          => pc = "mark" /\ i \in oks
       /\ (pc' = "returned"
           /\ outcome' \in {"transport", "http", "decode", "empty", "no_offers"})
          => tried' = {} /\ seen_offer_ids' = seen0' /\ file' = file
       /\ (pc' = "returned" /\ tried' = {})
          => seen_offer_ids' = seen0']_vars

\* a run over a full list of offers has ended with every offer rejected, one
\* for its price and one for its id
C19_Witness ==
    /\ pc = "returned"
    /\ outcome = "done"
    /\ Len(offers_data) = MaxOffers
    /\ tried = {}
    /\ seen_offer_ids = seen0
    /\ \E j \in Positions : PriceVerdict(offers_data[j]) = "skip"
    /\ \E j \in Positions :
          PriceVerdict(offers_data[j]) = "admit" /\ IdOf(j) \in seen0

\* C20: a fetch comes only after the jitter sleep; a pass begins only at
\* startup or after a sleep of CHECK_INTERVAL_SECONDS (the one that ends a
\* pass, or the one of the handler); the next resource comes only after a
\* return of check_api_for_event; a pass that is complete goes to the
\* interval sleep; an error in the body of the loop goes to the handler's
\* sleep, after which the next pass starts from the first resource; and the
\* process exits only at startup.
C20_LoopCannotSpin ==
    [][/\ pc' = "fetch" => pc = "jitter"
       /\ (pc' = "jitter" /\ index' = 1) => pc \in {"boot", "interval", "backoff"}
       /\ (pc' = "jitter" /\ index' > 1) => pc = "returned"
       /\ (pc = "returned" /\ index = NumEvents) => pc' \in {"interval", "boot"}
       /\ pc \in {"interval", "backoff"}
          => pc' = "boot" \/ (pc' = "jitter" /\ index' = 1 /\ fetched' = <<>>)
       /\ (outcome' = "loop_error" /\ outcome # "loop_error") => pc' = "backoff"
       /\ pc' = "exited" => pc = "boot"]_vars

\* the pass after an error in the loop: the handler has slept and the loop is
\* at the jitter sleep of the first resource
C20_Witness ==
    /\ pc = "jitter"
    /\ index = 1
    /\ outcome = "loop_error"
    /\ fetched = <<>>
    /\ seen_offer_ids # {}

\* C12: load_seen_offers always returns to main, which goes on to the poll
\* loop; a file that is missing, unreadable, not JSON, not a JSON list, or a
\* list that holds a list or an object, leaves the empty set; a list of ids
\* leaves exactly the set of its elements.
C12_LoadNeverFatal ==
    pc # "boot" =>
        /\ pc # "exited"
        /\ file.kind \in {"absent", "unreadable", "garbage", "other", "nested"}
           => seen_offer_ids = {}
        /\ file.kind = "list"
           => /\ \A k \in DOMAIN file.ids : file.ids[k] \in seen_offer_ids
              /\ \A id \in seen_offer_ids : \E k \in DOMAIN file.ids : file.ids[k] = id

\* a list with a repeated element was loaded
C12_Witness ==
    /\ pc = "jitter"
    /\ file.kind = "list"
    /\ Len(file.ids) = MaxFileLen
    /\ file.ids[1] = file.ids[MaxFileLen]
    /\ Cardinality(seen_offer_ids) = 2

\* offer i has been enriched and is in its delivery loop, or just past it
Enriched == pc \in {"send", "mark"}
\* the description of offer i holds one of the words, whatever the case
HasKeyword(words) ==
    \E w \in words : Contains(lower(Spell(offers_data[i].desc.text)), Spell(w))
Floor == HasKeyword({"pista", "floor"})
Premium == HasKeyword({"gold", "golden"})

\* C14 as stated: for a description with a floor keyword the image is
\* pista.jpg if that file exists and no image at all if it does not; for a
\* description with a premium keyword and no floor keyword the same with
\* golden.jpg.
C14_KeywordImage ==
    Enriched =>
        /\ Floor =>
              image_to_send_path =
                  IF exists(sources, Path("pista", 0)) THEN Path("pista", 0) ELSE NoImage
        /\ (~Floor /\ Premium) =>
              image_to_send_path =
                  IF exists(sources, Path("golden", 0)) THEN Path("golden", 0) ELSE NoImage

\* the integers n for which a file named n.jpg is in the image directory
SectorNumbers == {e.num : e \in {e \in sources : e.kind = "sector" /\ e.exact}}

\* C15 as stated: for a description without keyword and seat lines with a
\* numeric sector value s, the image is n.jpg for the largest n <= s among
\* the files named n.jpg, and no image if there is none.
C15_NearestRankBelow ==
    LET s == extracted_sector_value_for_image(message_to_send.lines)
        below == {n \in SectorNumbers : n <= s}
    IN  (Enriched /\ ~Floor /\ ~Premium /\ s # NoSector) =>
            image_to_send_path =
                IF below # {} THEN Path("sector", Max(below)) ELSE NoImage

\* C16 as stated: every delivery attempt sends something, the photo or, when
\* the image that was selected is missing or cannot be read, the text alone.
C16_UnreadableImageFallsBack ==
    Enriched => \A k \in DOMAIN sent : sent[k].mode \in {"photo", "text"}

\* the snapshot of the scenario: offer o1 of type General in the group with
\* place M-217, row 4, seats 12 and 13
Scenario(total) ==
    [groups |-> List(<<Group({"o1"}, <<Place("M-217", <<Row("4", <<"12", "13">>)>>)>>)>>),
     offers |-> List(<<Offer("o1", ObjectPrice(IntTotal(total)), Text("General"))>>),
     extra |-> FALSE]
ExpectedMessage ==
    [type |-> "General",
     date |-> "30/05/26",
     lines |-> <<Line("SECTOR", <<"2", "1", "7">>),
                 Line("FILA", <<"4">>),
                 Line("ASIENTO", <<"12", ", ", "13">>)>>,
     price |-> <<150, 0>>]

\* C17: from the empty seen-offer set, for the first resource, the scenario
\* with a total of 15000 ends in one delivery attempt per recipient, in order,
\* each with the message General, 30/05/26, sector 217, row 4, seats
\* "12, 13", price 150.00, and o1 is in the set exactly if a delivery
\* succeeded; with a total of 40000 no delivery is attempted and the set
\* stays empty.
C17_EndToEnd ==
    /\ (data = Scenario(15000) /\ index = 1 /\ seen0 = {}) =>
          /\ Enriched => message_to_send = ExpectedMessage /\ Recipients = UpTo(Len(sent))
          /\ pc = "mark" => Len(sent) = NumChats
          /\ pc = "returned" =>
                /\ outcome = "done"
                /\ tried = {1}
                /\ oks = {1} <=> seen_offer_ids = {"o1"}
                /\ oks = {} <=> seen_offer_ids = {}
    /\ data = Scenario(40000) =>
          /\ pc \in {"offer", "returned"}
          /\ tried = {}
          /\ seen_offer_ids = {}

\* the run on the scenario has ended with a delivery and o1 in the set
C17_Witness ==
    /\ pc = "returned"
    /\ data = Scenario(15000)
    /\ oks = {1}
    /\ seen_offer_ids = {"o1"}

\* offer j has no usable id and passes the price check
Unkeyed(j) == IdOf(j) = NoId /\ PriceVerdict(offers_data[j]) = "admit"

\* C21 as stated: the falsy id is never in the seen-offer set, an offer
\* without a usable id that passes the price check is not taken for seen
\* and is not added when its delivery succeeds, and when a poll in which
\* such an offer appears has ended, the offer has been dispatched.
C21_UnkeyedAlwaysDispatched ==
    InRun =>
        /\ NoId \notin seen_offer_ids
        /\ \A j \in Positions : Unkeyed(j) => ~AlreadySeen(IdOf(j), seen_offer_ids)
        /\ pc = "returned" => \A j \in Positions : Unkeyed(j) => j \in tried

\* the offers of the first of the two polls
first_offers == first.data.offers.list
\* in the first poll every offer had its turn, and an offer with this id was
\* rejected for its price or had only failed deliveries, and none was delivered
RejectedBefore(id) ==
    /\ id # NoId
    /\ \A k \in DOMAIN first_offers :
          /\ PriceVerdict(first_offers[k]) # "raise"
          /\ ~EnrichRaises(first_offers[k])
          /\ first_offers[k].id = id => k \notin first.oks
    /\ \E k \in DOMAIN first_offers :
          /\ first_offers[k].id = id
          /\ PriceVerdict(first_offers[k]) = "skip" \/ k \in first.tried

\* C22 as stated: when the second of two polls has ended, every offer with a
\* numeric price below the threshold whose id was rejected for its price, or
\* had only failed deliveries, in the first poll has been dispatched (itself
\* or an earlier offer of this poll with its id), and its id is in the
\* seen-offer set if a delivery succeeded.
C22_RejectionNeverSuppresses ==
    (run = 5 /\ pc = "returned") =>
        \A j \in Positions :
            (/\ RejectedBefore(IdOf(j))
             /\ NumericTotal(j)
             /\ TotalOf(j) < MAX_PRICE_THRESHOLD * 100)
            => /\ \E k \in tried : IdOf(k) = IdOf(j)
               /\ j \in oks => IdOf(j) \in seen_offer_ids

\* the ids a load would find in the file: those of a JSON list, none in a
\* file that is missing or holds anything else
IdsInFile == IF file.kind = "list" THEN {file.ids[k] : k \in DOMAIN file.ids} ELSE {}
\* main is past load_seen_offers
Loaded(p) == p \notin {"boot", "exited"}

\* C23: while the process runs after its startup load, no step takes an id
\* out of the in-memory set, and after every step the ids in the file are
\* ids of the in-memory set.
C23_MemoryGrowsFileBehind ==
    [][/\ (Loaded(pc) /\ Loaded(pc')) => seen_offer_ids \subseteq seen_offer_ids'
       /\ Loaded(pc') => IdsInFile' \subseteq seen_offer_ids']_vars

\* after a save that failed the file holds some, not all, of the ids in memory
C23_Witness ==
    /\ Loaded(pc)
    /\ IdsInFile # {}
    /\ IdsInFile # seen_offer_ids
    /\ IdsInFile \subseteq seen_offer_ids
    /\ delivered # {}

====
